---- MODULE Spec2Model ----
(***************************************************************************)
(* Model of the morloc front end's symbol table (src/frontend/table.c)     *)
(* and of the couplet helpers of its traversal library                     *)
(* (src/frontend/ws_access.c).                                             *)
(*                                                                         *)
(* The C code works on linked structures, so the model keeps an explicit   *)
(* memory: every malloc'ed object lives in a pool of `heap`, a pointer is  *)
(* an index into its pool and NULL is 0.  Every C function is an operator  *)
(* taking the memory H and returning [h |-> memory after, r |-> result].   *)
(***************************************************************************)
EXTENDS Naturals, Sequences, FiniteSets, TLC

VARIABLES heap,    \* the memory (pools of entries, tables, ids, strings, ...)
          in,      \* the handles the caller holds
          call,    \* the last call made: its name and arguments
          ret,     \* what the last call returned
          status,  \* "running" | "exited" (exit(EXIT_FAILURE)) | "segv"
          ghost    \* history kept for stating the properties only

vars == <<heap, in, call, ret, status, ghost>>

NULL == 0

\* An Id without a name (e->id->name == NULL).
NoName == "<null>"

(***************************************************************************)
(* Memory                                                                  *)
(***************************************************************************)

EmptyHeap ==
    [ ents     |-> <<>>,   \* Entry : [id, type, value, next]
      tabs     |-> <<>>,   \* Table : [head, tail]
      ids      |-> <<>>,   \* Id    : [name]
      strs     |-> <<>>,   \* char* : the string's text
      mans     |-> <<>>,   \* Manifold : its content
      ws       |-> <<>>,   \* W     : [cls, value, next]
      wss      |-> <<>>,   \* Ws    : [head, last]
      cps      |-> <<>>,   \* Couplet : [lhs, rhs]
      err      |-> <<>>,   \* what was written to stderr
      exit     |-> FALSE,  \* exit(EXIT_FAILURE) was called
      nullread |-> FALSE ] \* a field of a NULL pointer was read

R(H, r) == [h |-> H, r |-> r]

\* F applied to the value of v: v is computed once, however often F uses it.
Then(v, F(_)) == CHOOSE y \in {F(x) : x \in {v}} : TRUE

\* fprintf(stderr, ...)
warn(H, msg) == [H EXCEPT !.err = Append(@, msg)]

\* Reading table->head with table == NULL is undefined behaviour.  The
\* operators record that it happened and go on as a build does that reads
\* zero from page 0; the actions choose between that outcome and the fault.
TableHead(H, table) == IF table = NULL THEN NULL ELSE H.tabs[table].head
TableTail(H, table) == IF table = NULL THEN NULL ELSE H.tabs[table].tail
DerefTable(H, table) == IF table = NULL THEN [H EXCEPT !.nullread = TRUE] ELSE H

new_id(H, name) == R([H EXCEPT !.ids = Append(@, [name |-> name])], Len(H.ids) + 1)

new_str(H, text) == R([H EXCEPT !.strs = Append(@, text)], Len(H.strs) + 1)

id_clone(H, id) ==
    IF id = NULL THEN R(H, NULL) ELSE new_id(H, H.ids[id].name)

strdup(H, s) == new_str(H, H.strs[s])

manifold_new(H) == R([H EXCEPT !.mans = Append(@, "empty")], Len(H.mans) + 1)

id_cmp(H, a, b) == H.ids[a].name = H.ids[b].name

entry_new(H, id, type, value) ==
    R([H EXCEPT !.ents = Append(@, [id |-> id, type |-> type,
                                    value |-> value, next |-> NULL])],
      Len(H.ents) + 1)

\* A private copy of the entry struct with its next link cleared; the id
\* and the value are the original's.
entry_isolate(H, entry) ==
    IF entry = NULL THEN R(H, NULL)
    ELSE R([H EXCEPT !.ents = Append(@, [H.ents[entry] EXCEPT !.next = NULL])],
           Len(H.ents) + 1)

(***************************************************************************)
(* table.c: construction                                                   *)
(***************************************************************************)

_table_new(H, e) ==
    R([H EXCEPT !.tabs = Append(@, [head |-> e, tail |-> e])], Len(H.tabs) + 1)

table_new(H, entry) ==
    LET i == entry_isolate(H, entry) IN _table_new(i.h, i.r)

_retail(H, t, e) ==
    [H EXCEPT !.ents[H.tabs[t].tail].next = e, !.tabs[t].tail = e]

table_add_shared(H, table, entry) ==
    IF table = NULL THEN _table_new(H, entry)
    ELSE IF H.tabs[table].tail # NULL THEN R(_retail(H, table, entry), table)
    ELSE R(warn(H, "WARNING: cannot add to tailless table"), table)

table_add(H, table, entry) ==
    LET i == entry_isolate(H, entry) IN
    IF table = NULL THEN _table_new(i.h, i.r)
    ELSE IF i.h.tabs[table].tail # NULL THEN R(_retail(i.h, table, i.r), table)
    ELSE R(warn(i.h, "WARNING: cannot add to tailless table"), table)

_join_keeptail(H, a, b) ==
    [H EXCEPT !.ents[H.tabs[a].tail].next = H.tabs[b].head]

_join(H, a, b) ==
    [H EXCEPT !.ents[H.tabs[a].tail].next = H.tabs[b].head,
              !.tabs[a].tail = H.tabs[b].tail]

table_join(H, a, b) ==
    IF b # NULL /\ H.tabs[b].head # NULL
    THEN IF a # NULL /\ H.tabs[a].head # NULL
         THEN R(_join(H, a, b), a)
         ELSE R(H, b)
    ELSE R(H, a)

(***************************************************************************)
(* table.c: lookup                                                         *)
(***************************************************************************)

is_recursive(type) ==
    type = "T_PATH" \/ type = "C_COMPOSON" \/ type = "C_NEST"

\* The macros of table.c.  A TType is never 0 here, so (t) holds.
STCMP(H, e, i, t) ==
    /\ H.ents[e].id # NULL
    /\ i # NULL
    /\ id_cmp(H, H.ents[e].id, i)
    /\ H.ents[e].type = t

TCMP(H, e, t) == e # NULL /\ H.ents[e].type = t

SCMP(H, e, i) ==
    H.ents[e].id # NULL /\ i # NULL /\ id_cmp(H, H.ents[e].id, i)

\* A Path is the list of its segments' Ids: path->id is the first,
\* path->next the rest, and the base is the segment without a next.
path_is_base(path) == Len(path) = 1

RECURSIVE table_get_loop(_, _, _, _, _)
table_get_loop(H, e, out, id, type) ==
    IF e = NULL THEN R(H, out)
    ELSE LET a == IF STCMP(H, e, id, type) THEN table_add(H, out, e) ELSE R(H, out)
         IN table_get_loop(a.h, a.h.ents[e].next, a.r, id, type)

table_get(H, table, id, type) ==
    table_get_loop(DerefTable(H, table), TableHead(H, table), NULL, id, type)

RECURSIVE table_recursive_get(_, _, _, _)
RECURSIVE table_recursive_get_loop(_, _, _, _, _)
table_recursive_get_loop(H, e, out, id, type) ==
    IF e = NULL THEN R(H, out)
    ELSE LET a == IF STCMP(H, e, id, type) THEN table_add(H, out, e) ELSE R(H, out)
             b == IF is_recursive(a.h.ents[e].type)
                  THEN LET d == table_recursive_get(a.h, a.h.ents[e].value, id, type)
                       IN table_join(d.h, a.r, d.r)
                  ELSE a
         IN table_recursive_get_loop(b.h, b.h.ents[e].next, b.r, id, type)

table_recursive_get(H, table, id, type) ==
    table_recursive_get_loop(DerefTable(H, table), TableHead(H, table), NULL, id, type)

RECURSIVE table_path_get(_, _, _, _)
RECURSIVE table_path_get_loop(_, _, _, _, _)
table_path_get_loop(H, e, out, path, type) ==
    IF e = NULL THEN R(H, out)
    ELSE LET b == IF path_is_base(path)
                  THEN LET a == IF STCMP(H, e, Head(path), type)
                                THEN table_add(H, out, e) ELSE R(H, out)
                       IN IF is_recursive(a.h.ents[e].type)
                          THEN LET d == table_recursive_get(a.h, a.h.ents[e].value,
                                                            Head(path), type)
                               IN table_join(d.h, a.r, d.r)
                          ELSE a
                  ELSE IF /\ is_recursive(H.ents[e].type)
                          /\ \/ ~(H.ents[e].id # NULL /\ H.ids[H.ents[e].id].name # NoName)
                             \/ SCMP(H, e, Head(path))
                       THEN LET d == table_path_get(H, H.ents[e].value, Tail(path), type)
                            IN table_join(d.h, out, d.r)
                       ELSE R(H, out)
         IN table_path_get_loop(b.h, b.h.ents[e].next, b.r, path, type)

table_path_get(H, table, path, type) ==
    IF table = NULL \/ H.tabs[table].head = NULL THEN R(H, NULL)
    ELSE table_path_get_loop(H, H.tabs[table].head, NULL, path, type)

RECURSIVE table_selection_get_loop(_, _, _, _, _)
\* A Selection is the list of its Paths.
table_selection_get_loop(H, table, s, out, type) ==
    IF s = <<>> THEN R(H, out)
    ELSE LET b == table_path_get(H, table, Head(s), type)
             j == table_join(b.h, out, b.r)
         IN table_selection_get_loop(j.h, table, Tail(s), j.r, type)

table_selection_get(H, table, selection, type) ==
    table_selection_get_loop(H, table, selection, NULL, type)

RECURSIVE table_recursive_get_type(_, _, _)
RECURSIVE table_recursive_get_type_loop(_, _, _, _)
table_recursive_get_type_loop(H, e, out, type) ==
    IF e = NULL THEN R(H, out)
    ELSE LET a == IF TCMP(H, e, type) THEN table_add(H, out, e) ELSE R(H, out)
             b == IF is_recursive(a.h.ents[e].type)
                  THEN LET down == table_recursive_get_type(a.h, a.h.ents[e].value, type)
                       IN table_join(down.h, a.r, down.r)
                  ELSE a
         IN table_recursive_get_type_loop(b.h, b.h.ents[e].next, b.r, type)

table_recursive_get_type(H, table, type) ==
    table_recursive_get_type_loop(DerefTable(H, table), TableHead(H, table), NULL, type)

(***************************************************************************)
(* table.c: clone                                                          *)
(***************************************************************************)

RECURSIVE table_clone(_, _)
RECURSIVE table_clone_loop(_, _, _)

\* The switch of table_clone with the recursive types handing the clone the
\* original's nested table.
clone_value_shared(H, e) ==
    LET type == H.ents[e].type IN
    IF type \in {"T_PATH", "C_COMPOSON", "C_NEST", "C_DEREF"}
    THEN R(H, H.ents[e].value)
    ELSE IF type = "C_MANIFOLD" THEN manifold_new(H)
    ELSE IF type \in {"C_POSITIONAL", "C_GRPREF"} THEN strdup(H, H.ents[e].value)
    ELSE R([warn(H, "ERROR: can't clone this; will only clone paths")
               EXCEPT !.exit = TRUE], NULL)

\* The switch of table_clone with a default case that reports and goes on.
clone_value_noexit(H, e) ==
    LET type == H.ents[e].type IN
    IF type \in {"T_PATH", "C_COMPOSON", "C_NEST", "C_DEREF"}
    THEN table_clone(H, H.ents[e].value)
    ELSE IF type = "C_MANIFOLD" THEN manifold_new(H)
    ELSE IF type \in {"C_POSITIONAL", "C_GRPREF"} THEN strdup(H, H.ents[e].value)
    ELSE R(warn(H, "ERROR: can't clone this; will only clone paths"), NULL)

\* The switch of table_clone: the value the clone of entry e gets.
clone_value(H, e) ==
    LET type == H.ents[e].type IN
    IF type \in {"T_PATH", "C_COMPOSON", "C_NEST", "C_DEREF"}
    THEN table_clone(H, H.ents[e].value)
    ELSE IF type = "C_MANIFOLD" THEN manifold_new(H)
    ELSE IF type \in {"C_POSITIONAL", "C_GRPREF"} THEN strdup(H, H.ents[e].value)
    ELSE R([warn(H, "ERROR: can't clone this; will only clone paths")
               EXCEPT !.exit = TRUE], NULL)

table_clone_loop(H, e, clone) ==
    IF e = NULL THEN R(H, clone)
    ELSE LET id     == id_clone(H, H.ents[e].id)
             eclone == entry_new(id.h, id.r, H.ents[e].type, NULL)
             v      == clone_value(eclone.h, e)
         IN IF v.h.exit THEN R(v.h, NULL)
            ELSE LET set == [v.h EXCEPT !.ents[eclone.r].value = v.r]
                     t   == table_add(set, clone, eclone.r)
                 IN table_clone_loop(t.h, t.h.ents[e].next, t.r)

table_clone(H, table) ==
    IF table = NULL THEN R(H, NULL)
    ELSE table_clone_loop(H, H.tabs[table].head, NULL)

(***************************************************************************)
(* table.c: composon inputs and outputs                                    *)
(***************************************************************************)

RECURSIVE _table_composon_io(_, _, _)
RECURSIVE _table_composon_io_loop(_, _, _, _)

\* The entry of a nested expression the extraction goes on with, the two
\* ends exchanged.
io_end_swapped(H, table, is_input) ==
    IF is_input THEN TableHead(H, table) ELSE TableTail(H, table)

\* ne: the last entry of the nested table for inputs, the first for outputs.
io_end(H, table, is_input) ==
    IF is_input THEN TableTail(H, table) ELSE TableHead(H, table)

_table_composon_io_loop(H, e, result, is_input) ==
    IF e = NULL THEN R(H, result)
    ELSE LET type == H.ents[e].type
             step ==
                 IF type \in {"C_MANIFOLD", "C_POSITIONAL", "C_DEREF"}
                 THEN table_add(H, result, e)
                 ELSE IF type \in {"T_PATH", "C_NEST"}
                 THEN LET ne  == io_end(H, H.ents[e].value, is_input)
                          sub == _table_composon_io(DerefTable(H, H.ents[e].value),
                                                    ne, is_input)
                      IN table_join(sub.h, result, sub.r)
                 ELSE IF type = "C_GRPREF"
                 THEN R(warn(H, "Unresolved group reference"), result)
                 ELSE R(warn(H, "Illegal type in composition"), result)
         IN _table_composon_io_loop(step.h, step.h.ents[e].next, step.r, is_input)

_table_composon_io(H, entry, is_input) ==
    IF entry = NULL THEN R(H, NULL)
    ELSE IF ~(TCMP(H, entry, "C_COMPOSON") \/ TCMP(H, entry, "C_NEST"))
    THEN R(warn(H, "ERROR: input must be a composon, returning NULL"), NULL)
    ELSE _table_composon_io_loop(DerefTable(H, H.ents[entry].value),
                                 TableHead(H, H.ents[entry].value), NULL, is_input)

table_composon_outputs(H, entry) == _table_composon_io(H, entry, FALSE)

table_composon_inputs(H, entry) == _table_composon_io(H, entry, TRUE)

(***************************************************************************)
(* ws.h: the nodes (W), lists (Ws) and couplets the traversal works on     *)
(***************************************************************************)

w_new(H, cls, value) ==
    R([H EXCEPT !.ws = Append(@, [cls |-> cls, value |-> value, next |-> NULL])],
      Len(H.ws) + 1)

couplet_new(H, lhs, rhs) ==
    R([H EXCEPT !.cps = Append(@, [lhs |-> lhs, rhs |-> rhs])], Len(H.cps) + 1)

\* The classes whose value is a list, and those whose value is a couplet.
IsWsClass(cls) == cls \in {"K_LIST", "K_PATH", "C_NEST", "C_COMPOSON", "C_DEREF", "P_WS"}

IsCoupletClass(cls) == cls \in {"T_PATH", "T_EFFECT"}

g_lhs(H, w) == H.cps[H.ws[w].value].lhs

g_rhs(H, w) == H.cps[H.ws[w].value].rhs

\* The list of a node; NULL for a node whose value is no list.
g_ws(H, w) == IF w # NULL /\ IsWsClass(H.ws[w].cls) THEN H.ws[w].value ELSE NULL

s_lhs(H, w, lhs) == [H EXCEPT !.cps[H.ws[w].value].lhs = lhs]

s_ws(H, w, list) == [H EXCEPT !.ws[w].value = list]

RECURSIVE WWalk(_, _, _)
WWalk(H, w, fuel) ==
    IF w = NULL THEN <<>>
    ELSE IF fuel = 0 THEN <<NULL>>
    ELSE <<w>> \o WWalk(H, H.ws[w].next, fuel - 1)

\* The addresses of a list's nodes, in order.
WsChain(H, list) ==
    IF list = NULL THEN <<>> ELSE WWalk(H, H.wss[list].head, Len(H.ws))

ws_length(H, list) == Len(WsChain(H, list))

\* A private copy of the node struct with its next link cleared; the value
\* (the couplet, the list) is the original's.
w_isolate(H, w) ==
    IF w = NULL THEN R(H, NULL)
    ELSE R([H EXCEPT !.ws = Append(@, [H.ws[w] EXCEPT !.next = NULL])], Len(H.ws) + 1)

\* Gives the node a couplet of its own, with the same two sides.
w_clone_value(H, w) ==
    IF w # NULL /\ IsCoupletClass(H.ws[w].cls)
    THEN Then(couplet_new(H, g_lhs(H, w), g_rhs(H, w)), LAMBDA c :
         [c.h EXCEPT !.ws[w].value = c.r])
    ELSE H

_ws_new(H, w) ==
    R([H EXCEPT !.wss = Append(@, [head |-> w, last |-> w])], Len(H.wss) + 1)

ws_add(H, list, w) ==
    Then(w_isolate(H, w), LAMBDA i :
    IF list = NULL THEN _ws_new(i.h, i.r)
    ELSE IF i.h.wss[list].last # NULL
    THEN R([i.h EXCEPT !.ws[i.h.wss[list].last].next = i.r, !.wss[list].last = i.r], list)
    ELSE R(warn(i.h, "WARNING: cannot add to tailless ws"), list))

\* A new list of all nodes but the first; NULL for a list of fewer than two.
ws_tail(H, list) ==
    IF ws_length(H, list) < 2 THEN R(H, NULL)
    ELSE R([H EXCEPT !.wss = Append(@, [head |-> H.ws[H.wss[list].head].next,
                                        last |-> H.wss[list].last])],
           Len(H.wss) + 1)

(***************************************************************************)
(* ws_access.c                                                             *)
(***************************************************************************)

RECURSIVE ws_split_couplet_loop(_, _, _, _)

\* The loop of ws_split_couplet without w_clone_value: every copy keeps the
\* couplet of c.
ws_split_couplet_loop_shared(H, c, p, result) ==
    IF p = NULL THEN R(H, result)
    ELSE Then(w_isolate(H, c), LAMBDA nc :
         Then(s_lhs(nc.h, nc.r, p), LAMBDA sl :
         Then(ws_add(sl, result, nc.r), LAMBDA ad :
         ws_split_couplet_loop(ad.h, c, ad.h.ws[p].next, ad.r))))

ws_split_couplet_loop(H, c, p, result) ==
    IF p = NULL THEN R(H, result)
    ELSE Then(w_isolate(H, c), LAMBDA nc :
         Then(w_clone_value(nc.h, nc.r), LAMBDA cl :
         Then(s_lhs(cl, nc.r, p), LAMBDA sl :
         Then(ws_add(sl, result, nc.r), LAMBDA ad :
         ws_split_couplet_loop(ad.h, c, ad.h.ws[p].next, ad.r)))))

ws_split_couplet(H, c) ==
    LET paths == g_lhs(H, c)
        cls   == H.ws[paths].cls
    IN IF cls = "K_LIST"
       THEN ws_split_couplet_loop(H, c, H.wss[g_ws(H, paths)].head, NULL)
       ELSE IF cls \in {"K_PATH", "K_LABEL", "K_NAME"}
       THEN ws_add(H, NULL, c)
       ELSE R(warn(H, "ERROR: invalid lhs type in couplet"), NULL)

w_nextval_always(H, w, p) == R(H, H.ws[p].next)

w_nextval_never(H, w, p) == R(H, p)

w_nextval_ifpath(H, w, p) ==
    IF H.ws[w].cls = "T_PATH" /\ ws_length(H, g_ws(H, g_lhs(H, p))) > 1
    THEN LET lhs == g_lhs(H, p) IN
         IF H.ws[lhs].cls = "K_PATH"
         THEN Then(w_isolate(H, p), LAMBDA next :
              Then(ws_tail(next.h, g_ws(next.h, lhs)), LAMBDA tl :
              R(s_ws(tl.h, g_lhs(tl.h, next.r), tl.r), next.r)))
         ELSE IF H.ws[lhs].cls = "K_LIST"
         THEN R(warn(H, "Not supported"), NULL)
         ELSE R(H, NULL)
    ELSE w_isolate(H, p)

(***************************************************************************)
(* Reading the memory back (used to state properties and build inputs)     *)
(***************************************************************************)

RECURSIVE Walk(_, _, _)
\* The entries from e along next, at most `fuel` of them; a chain that is
\* longer than the pool (a cycle) ends in the marker NULL.
Walk(H, e, fuel) ==
    IF e = NULL THEN <<>>
    ELSE IF fuel = 0 THEN <<NULL>>
    ELSE <<e>> \o Walk(H, H.ents[e].next, fuel - 1)

\* The addresses of a table's entries, in order.
Chain(H, table) ==
    IF table = NULL THEN <<>> ELSE Walk(H, H.tabs[table].head, Len(H.ents))

Range(s) == {s[i] : i \in 1..Len(s)}

\* head, tail and the next links agree: the chain ends, holds no entry
\* twice, and tail is its last entry.
WellFormed(H, table) ==
    table # NULL =>
        LET c == Chain(H, table) IN
        /\ NULL \notin Range(c)
        /\ Cardinality(Range(c)) = Len(c)
        /\ IF c = <<>> THEN H.tabs[table].tail = NULL
           ELSE H.tabs[table].tail = c[Len(c)]

RECURSIVE Flatten(_)
Flatten(ss) == IF ss = <<>> THEN <<>> ELSE Head(ss) \o Flatten(Tail(ss))

(***************************************************************************)
(* Building the tables the operations are applied to                       *)
(***************************************************************************)

\* Descriptions of tables and entries.  A table is absent ("null"), without
\* a head ("headless") or a list of entries; an entry has the name of its id
\* ("" for no id), its type, and the nested table or the payload text.
TNull == [kind |-> "null", es |-> <<>>]

THeadless == [kind |-> "headless", es |-> <<>>]

TNone == [kind |-> "none", es |-> <<>>]

TList(es) == [kind |-> "list", es |-> es]

Leaf(id, type, pay) == [id |-> id, type |-> type, tab |-> TNone, pay |-> pay]

Rec(id, type, tab) == [id |-> id, type |-> type, tab |-> tab, pay |-> ""]

RECURSIVE build_table(_, _)
RECURSIVE build_entries(_, _, _)
\* The table a description stands for, made with table_new, entry_new and
\* table_add as the conversion from the tree makes it.
build_table(H, ts) ==
    IF ts.kind = "null" THEN R(H, NULL)
    ELSE IF ts.kind = "headless" THEN table_new(H, NULL)
    ELSE build_entries(H, ts.es, NULL)

build_entries(H, es, table) ==
    IF es = <<>> THEN R(H, table)
    ELSE LET s  == Head(es)
             id == IF s.id = "" THEN R(H, NULL) ELSE new_id(H, s.id)
             v  == IF s.tab.kind # "none" THEN build_table(id.h, s.tab)
                   ELSE IF s.type = "C_MANIFOLD"
                   THEN R([id.h EXCEPT !.mans = Append(@, s.pay)], Len(id.h.mans) + 1)
                   ELSE IF s.type \in {"C_POSITIONAL", "C_GRPREF"}
                   THEN new_str(id.h, s.pay)
                   ELSE R(id.h, NULL)
             e  == entry_new(v.h, id.r, s.type, v.r)
             t  == table_add(e.h, table, e.r)
         IN build_entries(t.h, Tail(es), t.r)

RECURSIVE mk_flat(_, _, _)
\* A table of n positional entries built with entry_new and table_add.
mk_flat(H, table, n) ==
    IF n = 0 THEN R(H, table)
    ELSE LET s == new_str(H, "x")
             e == entry_new(s.h, NULL, "C_POSITIONAL", s.r)
             t == table_add(e.h, table, e.r)
         IN mk_flat(t.h, t.r, n - 1)

RECURSIVE mk_path(_, _)
\* The Ids of a path's segments, allocated by the caller.
mk_path(H, names) ==
    IF names = <<>> THEN R(H, <<>>)
    ELSE LET i    == new_id(H, Head(names))
             rest == mk_path(i.h, Tail(names))
         IN R(rest.h, <<i.r>> \o rest.r)

RECURSIVE mk_selection(_, _)
mk_selection(H, paths) ==
    IF paths = <<>> THEN R(H, <<>>)
    ELSE LET p    == mk_path(H, Head(paths))
             rest == mk_selection(p.h, Tail(paths))
         IN R(rest.h, <<p.r>> \o rest.r)

\* The name of an entry's id, NoName for an entry without one.
EntryName(H, e) ==
    IF H.ents[e].id = NULL THEN NoName ELSE H.ids[H.ents[e].id].name

\* What the entries at these addresses hold: a lookup returns copies, which
\* are the same entry when id, type and value are the same.
Contents(H, es) ==
    [i \in 1..Len(es) |->
        [id |-> H.ents[es[i]].id, type |-> H.ents[es[i]].type,
         value |-> H.ents[es[i]].value]]

\* How a call ends.  A call that read through a NULL pointer either faults
\* or goes on with the zero it read.
Finish(r, c) ==
    /\ call' = c
    /\ heap' = r.h
    /\ IF r.h.exit THEN status' = "exited" /\ ret' = NULL
       ELSE IF r.h.nullread
       THEN \/ status' = "segv" /\ ret' = NULL
            \/ status' = "running" /\ ret' = r.r
       ELSE status' = "running" /\ ret' = r.r

\* The memory at the start of a call.
Entry0 == [heap EXCEPT !.nullread = FALSE]

(***************************************************************************)
(* Lookups                                                                 *)
(***************************************************************************)

Names == {"a", "b", "c"}

QueryTypes == {"C_MANIFOLD", "T_PATH"}

\* Longest path looked up.
MaxPathLen == 3

Paths == UNION {[1..n -> Names] : n \in 1..MaxPathLen}

Selections == { <<p>> : p \in {<<"a">>, <<"c">>} }
                 \cup { <<p, q>> : p \in {<<"c">>}, q \in {<<"a", "c">>, <<"c">>} }

Leaves == {Leaf("a", "C_MANIFOLD", "M1"), Leaf("c", "C_MANIFOLD", "M2")}

Tabs0 ==
    {TNull, THeadless} \cup {TList(<<l>>) : l \in Leaves}
        \cup {TList(<<Leaf("a", "C_MANIFOLD", "M1"), Leaf("c", "C_MANIFOLD", "M2")>>)}

RecKinds == { <<"a", "T_PATH">>, <<"b", "T_PATH">>, <<"", "C_NEST">>, <<"a", "C_DEREF">> }

Ents1 == Leaves \cup {Rec(k[1], k[2], t) : k \in RecKinds, t \in Tabs0}

Tabs1 ==
    {TList(<<e>>) : e \in Ents1} \cup {TList(<<e, l>>) : e \in Ents1, l \in Leaves}

Ents2 == {Rec(k[1], k[2], t) : k \in RecKinds, t \in Tabs1}

LookupTables == Tabs0 \cup Tabs1 \cup {TList(<<e>>) : e \in Ents2}

InitLookup ==
    \E ts \in LookupTables :
        LET t == build_table(EmptyHeap, ts) IN
        /\ heap = t.h
        /\ in = [t |-> t.r]
        /\ call = [op |-> "none"]
        /\ ret = NULL
        /\ status = "running"
        /\ ghost = [cloned |-> FALSE]

Ready == status = "running" /\ call.op = "none"

\* The caller replaces its table by a clone of it.
CloneTable ==
    /\ Ready
    /\ ~ghost.cloned
    /\ LET r == table_clone(Entry0, in.t) IN
       /\ heap' = r.h
       /\ in' = [t |-> r.r]
       /\ ghost' = [cloned |-> TRUE]
    /\ UNCHANGED <<call, ret, status>>

TableGet(name, type) ==
    /\ Ready
    /\ LET q == new_id(Entry0, name)
           r == table_get(q.h, in.t, q.r, type)
       IN Finish(r, [op |-> "table_get", table |-> in.t, name |-> name,
                     id |-> q.r, type |-> type])
    /\ UNCHANGED <<in, ghost>>

RecursiveGet(name, type) ==
    /\ Ready
    /\ LET q == new_id(Entry0, name)
           r == table_recursive_get(q.h, in.t, q.r, type)
       IN Finish(r, [op |-> "table_recursive_get", table |-> in.t, name |-> name,
                     id |-> q.r, type |-> type])
    /\ UNCHANGED <<in, ghost>>

RecursiveGetType(type) ==
    /\ Ready
    /\ LET r == table_recursive_get_type(Entry0, in.t, type)
       IN Finish(r, [op |-> "table_recursive_get_type", table |-> in.t, type |-> type])
    /\ UNCHANGED <<in, ghost>>

PathGet(names, type) ==
    /\ Ready
    /\ LET q == mk_path(Entry0, names)
           r == table_path_get(q.h, in.t, q.r, type)
       IN Finish(r, [op |-> "table_path_get", table |-> in.t, names |-> names,
                     path |-> q.r, type |-> type])
    /\ UNCHANGED <<in, ghost>>

SelectionGet(sel, type) ==
    /\ Ready
    /\ LET q == mk_selection(Entry0, sel)
           r == table_selection_get(q.h, in.t, q.r, type)
       IN Finish(r, [op |-> "table_selection_get", table |-> in.t, names |-> sel,
                     selection |-> q.r, type |-> type])
    /\ UNCHANGED <<in, ghost>>

NextLookup ==
    \/ CloneTable
    \/ \E n \in Names, ty \in QueryTypes : TableGet(n, ty)
    \/ \E n \in Names, ty \in QueryTypes : RecursiveGet(n, ty)
    \/ \E ty \in QueryTypes : RecursiveGetType(ty)
    \/ \E p \in Paths, ty \in QueryTypes : PathGet(p, ty)
    \/ \E s \in Selections, ty \in QueryTypes : SelectionGet(s, ty)

SpecLookup == InitLookup /\ [][NextLookup]_vars

LookupOps ==
    {"table_get", "table_recursive_get", "table_recursive_get_type",
     "table_path_get", "table_selection_get"}

\* The four recursive types of the data model: those whose value is a
\* nested table.
RecursiveType(type) == type \in {"T_PATH", "C_COMPOSON", "C_NEST", "C_DEREF"}

RECURSIVE SubtreeMatches(_, _, _, _)
\* Pre-order listing of the entries under `table` that satisfy Match,
\* descending into every entry of a recursive type.
SubtreeMatches(H, table, Match(_), fuel) ==
    IF fuel = 0 THEN <<>>
    ELSE LET es == Chain(H, table) IN
         Flatten([i \in 1..Len(es) |->
             (IF Match(es[i]) THEN <<es[i]>> ELSE <<>>)
             \o (IF RecursiveType(H.ents[es[i]].type)
                 THEN SubtreeMatches(H, H.ents[es[i]].value, Match, fuel - 1)
                 ELSE <<>>)])

\* Nesting never goes deeper than there are tables.
Depth(H) == Len(H.tabs) + 1

RECURSIVE PathMatches(_, _, _, _)
\* The entries a path-qualified lookup is to return, as C1 lists them.
PathMatches(H, table, names, type) ==
    LET es == Chain(H, table)
        Hit(e) == EntryName(H, e) = Head(names) /\ H.ents[e].type = type
    IN IF Len(names) = 1
       THEN Flatten([i \in 1..Len(es) |->
                (IF Hit(es[i]) THEN <<es[i]>> ELSE <<>>)
                \o (IF RecursiveType(H.ents[es[i]].type)
                    THEN SubtreeMatches(H, H.ents[es[i]].value, Hit, Depth(H))
                    ELSE <<>>)])
       ELSE Flatten([i \in 1..Len(es) |->
                IF /\ RecursiveType(H.ents[es[i]].type)
                   /\ EntryName(H, es[i]) \in {NoName, Head(names)}
                THEN PathMatches(H, H.ents[es[i]].value, Tail(names), type)
                ELSE <<>>])

\* C1: table_path_get returns, in entry order, at the base segment every
\* top-level entry with the segment's id and the requested type and, for
\* each recursive-typed entry, the matches of the search of its nested
\* table; before the base, the results of the lookup of the rest of the
\* path in the nested table of every recursive-typed entry that is anonymous
\* or named as the segment.
C1_PathGetContract ==
    call.op = "table_path_get" =>
        /\ status = "running"
        /\ Contents(heap, Chain(heap, ret))
             = Contents(heap, PathMatches(heap, call.table, call.names, call.type))

\* C2: an anonymous nest around a table is transparent to the path lookup:
\* whenever both lookups return, looking a path up in a table that is one
\* anonymous nest entry holding T returns what looking it up in T returns;
\* the wrapper uses up no segment of the path.
C2_AnonymousTransparent ==
    (/\ call.op = "table_path_get"
     /\ status = "running"
     /\ Len(Chain(heap, call.table)) = 1
     /\ heap.ents[TableHead(heap, call.table)].type = "C_NEST"
     /\ heap.ents[TableHead(heap, call.table)].id = NULL) =>
        LET T     == heap.ents[TableHead(heap, call.table)].value
            inner == table_path_get(heap, T, call.path, call.type)
        IN ~inner.h.nullread =>
               Contents(heap, Chain(heap, ret))
                 = Contents(inner.h, Chain(inner.h, inner.r))

\* C3: whenever it returns, table_recursive_get returns in pre-order every
\* entry of the subtree whose id and type match, descending into the nested
\* table of every entry of the four recursive types (path, composon, nest,
\* deref); table_recursive_get_type does the same on the type alone.
C3_RecursiveGetWholeSubtree ==
    /\ (call.op = "table_recursive_get" /\ status = "running") =>
          LET Hit(e) == EntryName(heap, e) = call.name /\ heap.ents[e].type = call.type
          IN Contents(heap, Chain(heap, ret))
               = Contents(heap, SubtreeMatches(heap, call.table, Hit, Depth(heap)))
    /\ (call.op = "table_recursive_get_type" /\ status = "running") =>
          LET Hit(e) == heap.ents[e].type = call.type
          IN Contents(heap, Chain(heap, ret))
               = Contents(heap, SubtreeMatches(heap, call.table, Hit, Depth(heap)))

\* C10: every lookup returns, and none reads the head of an absent table,
\* whatever table the table operations produced.
C10_LookupsNeverReadAbsentTable ==
    call.op \in LookupOps => status = "running" /\ ~heap.nullread

(***************************************************************************)
(* Cloning a table and changing the clone                                  *)
(***************************************************************************)

\* Changes made to the clone after it was taken.
MaxChanges == 1

HoldsTable(type) == type \in {"T_PATH", "C_COMPOSON", "C_NEST", "C_DEREF"}

RECURSIVE Reach(_, _, _)
\* Every object a table reaches, per pool: tables, entries, ids, strings
\* and manifolds.
Reach(H, table, fuel) ==
    IF table = NULL \/ fuel = 0
    THEN [tabs |-> {}, ents |-> {}, ids |-> {}, strs |-> {}, mans |-> {}]
    ELSE LET es   == Range(Chain(H, table)) \ {NULL}
             subs == {Reach(H, H.ents[e].value, fuel - 1) :
                         e \in {x \in es : HoldsTable(H.ents[x].type)}}
         IN [tabs |-> {table} \cup UNION {x.tabs : x \in subs},
             ents |-> es \cup UNION {x.ents : x \in subs},
             ids  |-> ({H.ents[e].id : e \in es} \ {NULL}) \cup UNION {x.ids : x \in subs},
             strs |-> {H.ents[e].value :
                          e \in {x \in es : H.ents[x].type \in {"C_POSITIONAL", "C_GRPREF"}}}
                      \cup UNION {x.strs : x \in subs},
             mans |-> {H.ents[e].value : e \in {x \in es : H.ents[x].type = "C_MANIFOLD"}}
                      \cup UNION {x.mans : x \in subs}]

\* The objects a table reaches together with what they hold.
Snapshot(H, table) ==
    LET r == Reach(H, table, Depth(H)) IN
    [root |-> table,
     tabs |-> {<<t, H.tabs[t]>> : t \in r.tabs},
     ents |-> {<<e, H.ents[e]>> : e \in r.ents},
     ids  |-> {<<i, H.ids[i]>> : i \in r.ids},
     strs |-> {<<x, H.strs[x]>> : x \in r.strs},
     mans |-> {<<m, H.mans[m]>> : m \in r.mans}]

Disjoint(a, b) ==
    /\ a.tabs \cap b.tabs = {}
    /\ a.ents \cap b.ents = {}
    /\ a.ids \cap b.ids = {}
    /\ a.strs \cap b.strs = {}
    /\ a.mans \cap b.mans = {}

RECURSIVE Flat(_, _, _, _)
\* The flattened entry sequence of a table: per entry, in pre-order, its
\* depth, the name of its id, its type and its terminal payload.  With
\* `blank`, a manifold's payload reads as that of a fresh manifold.
Flat(H, table, depth, blank) ==
    IF depth > Depth(H) THEN <<>>
    ELSE LET es == Chain(H, table) IN
         Flatten([i \in 1..Len(es) |->
            LET e == H.ents[es[i]] IN
            << [depth |-> depth, name |-> EntryName(H, es[i]), type |-> e.type,
                pay |-> IF e.type \in {"C_POSITIONAL", "C_GRPREF"} THEN H.strs[e.value]
                        ELSE IF e.type = "C_MANIFOLD"
                        THEN (IF blank THEN "empty" ELSE H.mans[e.value])
                        ELSE ""] >>
            \o (IF HoldsTable(e.type) THEN Flat(H, e.value, depth + 1, blank) ELSE <<>>)])

CloneLeaves ==
    {Leaf("", "C_POSITIONAL", "1"), Leaf("g", "C_GRPREF", "grp"),
     Leaf("a", "C_MANIFOLD", "M1")}

\* An entry of a type table_clone has no case for.
Unclonable == Leaf("t", "T_TYPE", "")

CloneTabs0 ==
    {TNull, THeadless} \cup {TList(<<l>>) : l \in CloneLeaves}
        \cup {TList(<<l, Leaf("", "C_POSITIONAL", "2")>>) : l \in CloneLeaves}
        \cup {TList(<<Unclonable>>)}

CloneRecKinds ==
    { <<"a", "T_PATH">>, <<"", "C_COMPOSON">>, <<"", "C_NEST">>, <<"", "C_DEREF">> }

CloneEnts1 == CloneLeaves \cup {Rec(k[1], k[2], t) : k \in CloneRecKinds, t \in CloneTabs0}

CloneTables ==
    CloneTabs0 \cup {TList(<<e>>) : e \in CloneEnts1}
        \cup {TList(<<e, l>>) : e \in CloneEnts1, l \in CloneLeaves}
        \cup {TList(<<Rec("b", "T_PATH", TList(<<e>>))>>) : e \in CloneEnts1}

InitClone ==
    \E ts \in CloneTables :
        LET t == build_table(EmptyHeap, ts) IN
        /\ heap = t.h
        /\ in = [mode |-> "clone", t |-> t.r, c |-> NULL]
        /\ call = [op |-> "none"]
        /\ ret = NULL
        /\ status = "running"
        /\ ghost = [cloned |-> FALSE, changes |-> 0, snap |-> Snapshot(t.h, t.r)]

\* c = table_clone(t)
Clone ==
    /\ status = "running"
    /\ in.mode = "clone"
    /\ ~ghost.cloned
    /\ LET r == table_clone(Entry0, in.t) IN
       /\ Finish(r, [op |-> "table_clone", table |-> in.t])
       /\ in' = [in EXCEPT !.c = IF r.h.exit THEN NULL ELSE r.r]
    /\ ghost' = [ghost EXCEPT !.cloned = TRUE]

\* The tables of the clone the caller can reach, the clone itself included.
CloneTabs == {in.c} \cup Reach(heap, in.c, Depth(heap)).tabs

CanChange ==
    /\ status = "running"
    /\ in.mode = "clone"
    /\ ghost.cloned
    /\ ghost.changes < MaxChanges

\* table_add of a new entry to a table of the clone, at any depth.
AddToClone(tb) ==
    /\ CanChange
    /\ LET s == new_str(Entry0, "new")
           e == entry_new(s.h, NULL, "C_POSITIONAL", s.r)
           r == table_add(e.h, tb, e.r)
       IN /\ Finish(r, [op |-> "table_add", table |-> tb])
          /\ in' = [in EXCEPT !.c = IF tb = in.c THEN r.r ELSE @]
    /\ ghost' = [ghost EXCEPT !.changes = @ + 1]

\* table_join of a new table onto a table of the clone, at any depth.
JoinOntoClone(tb) ==
    /\ CanChange
    /\ LET f == mk_flat(Entry0, NULL, 1)
           r == table_join(f.h, tb, f.r)
       IN /\ Finish(r, [op |-> "table_join", a |-> tb, b |-> f.r])
          /\ in' = [in EXCEPT !.c = IF tb = in.c THEN r.r ELSE @]
    /\ ghost' = [ghost EXCEPT !.changes = @ + 1]

\* The caller writes through the clone: it overwrites a string payload or
\* renames an id the clone reaches.
WriteThroughClone ==
    /\ CanChange
    /\ LET r == Reach(heap, in.c, Depth(heap)) IN
       \/ \E x \in r.strs : heap' = [heap EXCEPT !.strs[x] = "written"]
       \/ \E i \in r.ids : heap' = [heap EXCEPT !.ids[i].name = "renamed"]
       \/ \E m \in r.mans : heap' = [heap EXCEPT !.mans[m] = "written"]
    /\ call' = [op |-> "write"]
    /\ ghost' = [ghost EXCEPT !.changes = @ + 1]
    /\ UNCHANGED <<in, ret, status>>

NextClone ==
    \/ Clone
    \/ \E tb \in CloneTabs : AddToClone(tb)
    \/ \E tb \in CloneTabs : JoinOntoClone(tb)
    \/ WriteThroughClone

SpecClone == InitClone /\ [][NextClone]_vars

\* C6: the clone of a table has the table's flattened entry sequence (same
\* ids, types, string payloads, order and nesting; a manifold entry holds a
\* fresh empty manifold), shares no table, entry, id, string or manifold
\* with it, and no table_add, table_join or write made through the clone,
\* at any depth, changes anything the original reaches.
C6_CloneIndependent ==
    (in.mode = "clone" /\ ghost.cloned /\ status = "running") =>
        /\ Snapshot(heap, in.t) = ghost.snap
        /\ Disjoint(Reach(heap, in.c, Depth(heap)), Reach(heap, in.t, Depth(heap)))
        /\ call.op = "table_clone" =>
              Flat(heap, in.c, 0, FALSE) = Flat(heap, in.t, 0, TRUE)

\* A table with a nested table, a string and a manifold was cloned and the
\* clone's nested table was then added to.
C6_Witness ==
    /\ in.mode = "clone"
    /\ ghost.cloned
    /\ status = "running"
    /\ call.op = "table_add"
    /\ call.table # in.c
    /\ LET r == Reach(heap, in.t, Depth(heap)) IN
       Cardinality(r.tabs) >= 2 /\ r.strs # {} /\ r.mans # {}

(***************************************************************************)
(* Composon inputs and outputs                                             *)
(***************************************************************************)

Comp(es) == Rec("", "C_COMPOSON", TList(es))

Man1 == Leaf("a", "C_MANIFOLD", "M1")

Man2 == Leaf("b", "C_MANIFOLD", "M2")

Pos1 == Leaf("", "C_POSITIONAL", "1")

Grp1 == Leaf("g", "C_GRPREF", "grp")

IOLeaves == {Man1, Pos1, Grp1, Rec("d", "C_DEREF", TList(<<Man2>>))}

\* The composons a nested expression is made of.
InnerComps ==
    {Comp(<<Man1>>), Comp(<<Man2, Pos1>>), Comp(<<Grp1>>),
     Comp(<<Rec("", "C_NEST", TList(<<Comp(<<Man1>>), Comp(<<Man2>>)>>))>>)}

\* The nested tables of path and nest entries: absent, headless, one or two
\* composons, or ending in an entry that is no composon.
ExprTabs ==
    {TNull, THeadless, TList(<<Man1>>)}
        \cup {TList(<<c>>) : c \in InnerComps}
        \cup {TList(<<p[1], p[2]>>) :
                 p \in {q \in InnerComps \X InnerComps : q[1] # q[2]}}

IOSubs ==
    IOLeaves \cup {Comp(<<Man1>>)}
        \cup {Rec("p", "T_PATH", t) : t \in ExprTabs}
        \cup {Rec("", "C_NEST", t) : t \in ExprTabs}

\* The entries the extraction is called on: composons and nests, and
\* entries that are neither.
IOEntries ==
    {Comp(<<x>>) : x \in IOSubs}
        \cup {Comp(<<x, y>>) : x \in IOSubs, y \in IOLeaves}
        \cup {Rec("", "C_NEST", TList(<<x>>)) : x \in IOSubs}
        \cup {Rec("", "C_COMPOSON", THeadless), Rec("", "C_NEST", TNull)}
        \cup {Man1, Pos1, Rec("p", "T_PATH", TList(<<Comp(<<Man1>>)>>))}

InitIO ==
    \E es \in IOEntries :
        LET t == build_table(EmptyHeap, TList(<<es>>)) IN
        /\ heap = t.h
        /\ in = [mode |-> "io", t |-> t.r, e |-> t.h.tabs[t.r].head]
        /\ call = [op |-> "none"]
        /\ ret = NULL
        /\ status = "running"
        /\ ghost = [snap |-> Snapshot(t.h, t.r)]

ComposonInputs ==
    /\ Ready
    /\ in.mode = "io"
    /\ LET r == table_composon_inputs(Entry0, in.e)
       IN Finish(r, [op |-> "table_composon_inputs", entry |-> in.e, is_input |-> TRUE])
    /\ UNCHANGED <<in, ghost>>

ComposonOutputs ==
    /\ Ready
    /\ in.mode = "io"
    /\ LET r == table_composon_outputs(Entry0, in.e)
       IN Finish(r, [op |-> "table_composon_outputs", entry |-> in.e, is_input |-> FALSE])
    /\ UNCHANGED <<in, ghost>>

NextIO == ComposonInputs \/ ComposonOutputs

SpecIO == InitIO /\ [][NextIO]_vars

IsComposonOrNest(H, e) == e # NULL /\ H.ents[e].type \in {"C_COMPOSON", "C_NEST"}

RECURSIVE Extraction(_, _, _, _)
\* What C8 says the extraction on an entry lists: nothing for an entry that
\* is no composon or nest; else, entry by entry, the manifold, positional
\* and deref entries themselves and, for a path or nest entry, the
\* extraction of the last (inputs) or first (outputs) entry of its table.
Extraction(H, entry, is_input, fuel) ==
    IF fuel = 0 \/ ~IsComposonOrNest(H, entry) THEN <<>>
    ELSE LET es == Chain(H, H.ents[entry].value) IN
         Flatten([i \in 1..Len(es) |->
            LET type == H.ents[es[i]].type IN
            IF type \in {"C_MANIFOLD", "C_POSITIONAL", "C_DEREF"} THEN <<es[i]>>
            ELSE IF type \in {"T_PATH", "C_NEST"}
            THEN LET sub == Chain(H, H.ents[es[i]].value) IN
                 IF sub = <<>> THEN <<>>
                 ELSE Extraction(H, IF is_input THEN sub[Len(sub)] ELSE sub[1],
                                 is_input, fuel - 1)
            ELSE <<>>])

IOOps == {"table_composon_inputs", "table_composon_outputs"}

\* Before the call, every entry of a recursive type held a nested table.
NestedPresent ==
    \A p \in ghost.snap.ents : HoldsTable(p[2].type) => p[2].value # NULL

MaxAlts == 3

\* Most segments of a path on a couplet's left-hand side.
MaxSegs == 3

\* Calls of w_nextval_ifpath with the same couplet.
MaxCalls == 2

AltKinds == {"K_PATH", "K_LABEL", "K_NAME"}

\* Left-hand sides: a list of alternatives, a path of segments, a label, a
\* name, or a node of a class no left-hand side may have.
LhsKinds ==
    {[cls |-> "K_LIST", alts |-> a, segs |-> 0] :
        a \in UNION {[1..n -> AltKinds] : n \in 1..MaxAlts}}
    \cup {[cls |-> "K_PATH", alts |-> <<>>, segs |-> n] : n \in 1..MaxSegs}
    \cup {[cls |-> k, alts |-> <<>>, segs |-> 0] : k \in {"K_LABEL", "K_NAME", "P_STRING"}}

RECURSIVE mk_segments(_, _, _)
\* A list of n label nodes.
mk_segments(H, list, n) ==
    IF n = 0 THEN R(H, list)
    ELSE Then(new_str(H, "seg"), LAMBDA s :
         Then(w_new(s.h, "K_LABEL", s.r), LAMBDA w :
         Then(ws_add(w.h, list, w.r), LAMBDA a :
         mk_segments(a.h, a.r, n - 1))))

\* A path of n segments.
mk_wpath(H, n) ==
    Then(mk_segments(H, NULL, n), LAMBDA l : w_new(l.h, "K_PATH", l.r))

RECURSIVE mk_alts(_, _, _)
mk_alts(H, list, alts) ==
    IF alts = <<>> THEN R(H, list)
    ELSE Then(IF Head(alts) = "K_PATH" THEN mk_wpath(H, 2)
              ELSE Then(new_str(H, "alt"), LAMBDA s : w_new(s.h, Head(alts), s.r)),
              LAMBDA w :
         Then(ws_add(w.h, list, w.r), LAMBDA a :
         mk_alts(a.h, a.r, Tail(alts))))

mk_lhs(H, k) ==
    IF k.cls = "K_LIST"
    THEN Then(mk_alts(H, NULL, k.alts), LAMBDA l : w_new(l.h, "K_LIST", l.r))
    ELSE IF k.cls = "K_PATH" THEN mk_wpath(H, k.segs)
    ELSE Then(new_str(H, "lhs"), LAMBDA s : w_new(s.h, k.cls, s.r))

InitW ==
    \E k \in LhsKinds :
    \E lhs   \in {mk_lhs(EmptyHeap, k)} :
    \E rhs   \in {w_new(lhs.h, "C_MANIFOLD", NULL)} :
    \E cp    \in {couplet_new(rhs.h, lhs.r, rhs.r)} :
    \E c     \in {w_new(cp.h, "T_EFFECT", cp.r)} :
    \E body  \in {w_new(c.h, "P_WS", NULL)} :
    \E label \in {w_new(body.h, "K_LABEL", NULL)} :
    \E pc    \in {couplet_new(label.h, label.r, body.r)} :
    \E wpath \in {w_new(pc.h, "T_PATH", pc.r)} :
    \E wnest \in {w_new(wpath.h, "C_NEST", NULL)} :
        LET H == wnest.h
        IN /\ heap = H
           /\ in = [mode |-> "ws", c |-> c.r, nodes |-> {wpath.r, wnest.r}]
           /\ call = [op |-> "none"]
           /\ ret = NULL
           /\ status = "running"
           /\ ghost = [calls |-> 0, cnode |-> H.ws[c.r], couplet |-> H.cps[cp.r],
                       lhs |-> lhs.r, rhs |-> rhs.r, lhsnode |-> H.ws[lhs.r],
                       segs |-> WsChain(H, g_ws(H, lhs.r))]

SplitCouplet ==
    /\ Ready
    /\ in.mode = "ws"
    /\ \E r \in {ws_split_couplet(Entry0, in.c)} :
          Finish(r, [op |-> "ws_split_couplet", c |-> in.c])
    /\ UNCHANGED <<in, ghost>>

\* next = w_nextval_ifpath(w, p), p being the couplet the caller holds.
NextvalIfpath(w) ==
    /\ status = "running"
    /\ in.mode = "ws"
    /\ call.op \in {"none", "w_nextval_ifpath"}
    /\ ghost.calls < MaxCalls
    /\ \E r \in {w_nextval_ifpath(Entry0, w, in.c)} :
          Finish(r, [op |-> "w_nextval_ifpath", w |-> w, p |-> in.c])
    /\ ghost' = [ghost EXCEPT !.calls = @ + 1]
    /\ UNCHANGED in

NextW ==
    \/ SplitCouplet
    \/ \E w \in in.nodes : NextvalIfpath(w)

SpecW == InitW /\ [][NextW]_vars

\* C7: splitting a couplet whose left-hand side is a list of n alternatives
\* yields n couplets in the order of the alternatives, the i-th with the
\* i-th alternative as its left-hand side and the input's right-hand side,
\* and leaves the input couplet with its list; a couplet with a path, label
\* or name on the left yields that one couplet, unchanged.
C7_SplitCouplet ==
    (call.op = "ws_split_couplet"
        /\ ghost.lhsnode.cls \in {"K_LIST", "K_PATH", "K_LABEL", "K_NAME"}) =>
        LET out == WsChain(heap, ret) IN
        /\ status = "running"
        /\ heap.ws[call.c] = ghost.cnode
        /\ heap.cps[ghost.cnode.value] = ghost.couplet
        /\ heap.ws[ghost.lhs] = ghost.lhsnode
        /\ WsChain(heap, g_ws(heap, ghost.lhs)) = ghost.segs
        /\ NULL \notin Range(out)
        /\ IF ghost.lhsnode.cls = "K_LIST"
           THEN /\ Len(out) = Len(ghost.segs)
                /\ \A i \in 1..Len(out) :
                      /\ heap.ws[out[i]].cls = ghost.cnode.cls
                      /\ g_lhs(heap, out[i]) = ghost.segs[i]
                      /\ g_rhs(heap, out[i]) = ghost.rhs
           ELSE /\ Len(out) = 1
                /\ heap.ws[out[1]].cls = ghost.cnode.cls
                /\ heap.ws[out[1]].value = ghost.cnode.value

\* A couplet with three alternatives on its left was split.
C7_Witness ==
    /\ call.op = "ws_split_couplet"
    /\ status = "running"
    /\ ghost.lhsnode.cls = "K_LIST"
    /\ Len(ghost.segs) = 3
    /\ Len(WsChain(heap, ret)) = 3

\* C9: w_nextval_ifpath on a path node and a couplet p whose left-hand side
\* is a path of more than one segment returns a new couplet whose left-hand
\* side is p's without its first segment and leaves p with all its segments,
\* on every call with the same p; on a node that is no path, or a left-hand
\* side of one segment, the returned couplet has p's left-hand side.
C9_NextvalLeavesCoupletUnchanged ==
    (call.op = "w_nextval_ifpath" /\ status = "running") =>
        IF heap.ws[call.w].cls = "T_PATH" /\ Len(ghost.segs) > 1
        THEN ghost.lhsnode.cls = "K_PATH" =>
                /\ ret # NULL
                /\ ret # call.p
                /\ WsChain(heap, g_ws(heap, g_lhs(heap, ret))) = Tail(ghost.segs)
                /\ WsChain(heap, g_ws(heap, g_lhs(heap, call.p))) = ghost.segs
        ELSE /\ ret # NULL
             /\ g_lhs(heap, ret) = ghost.lhs
             /\ WsChain(heap, g_ws(heap, ghost.lhs)) = ghost.segs

(***************************************************************************)
(* Structural violations                                                   *)
(***************************************************************************)

InitErr == InitClone \/ InitIO \/ InitW

NextErr == Clone \/ ComposonInputs \/ ComposonOutputs \/ SplitCouplet

SpecErr == InitErr /\ [][NextErr]_vars

\* table_clone was called on a table that reaches an entry it cannot clone.
CloneMetUnclonable ==
    /\ call.op = "table_clone"
    /\ \E e \in Reach(heap, call.table, Depth(heap)).ents :
          heap.ents[e].type \notin {"T_PATH", "C_COMPOSON", "C_NEST", "C_DEREF",
                                    "C_MANIFOLD", "C_POSITIONAL", "C_GRPREF"}

\* ws_split_couplet was called on a couplet whose left-hand side is no
\* list, path, label or name.
SplitMetBadLhs ==
    /\ call.op = "ws_split_couplet"
    /\ ghost.lhsnode.cls \notin {"K_LIST", "K_PATH", "K_LABEL", "K_NAME"}

\* The extraction was called on an entry that is no composon and no nest.
IOMetNonComposon ==
    /\ call.op \in IOOps
    /\ call.entry # NULL
    /\ ~IsComposonOrNest(heap, call.entry)

MaxLen == 2

\* What a caller can hold as a table: nothing (NULL), a table without a
\* head (table_new(NULL)) or a table of 1..MaxLen entries.
Shapes ==
    {[kind |-> "null", n |-> 0], [kind |-> "headless", n |-> 0]}
        \cup {[kind |-> "list", n |-> n] : n \in 1..MaxLen}

mk_shape(H, shape) ==
    IF shape.kind = "null" THEN R(H, NULL)
    ELSE IF shape.kind = "headless" THEN table_new(H, NULL)
    ELSE mk_flat(H, NULL, shape.n)

InitJoin ==
    \E sa \in Shapes, sb \in Shapes, sc \in Shapes :
        LET a == mk_shape(EmptyHeap, sa)
            b == mk_shape(a.h, sb)
            c == mk_shape(b.h, sc)
        IN /\ heap = c.h
           /\ in = <<a.r, b.r, c.r>>
           /\ call = [op |-> "none"]
           /\ ret = NULL
           /\ status = "running"
           /\ ghost = [orig  |-> <<Chain(c.h, a.r), Chain(c.h, b.r), Chain(c.h, c.r)>>,
                       empty |-> <<Chain(c.h, a.r) = <<>>, Chain(c.h, b.r) = <<>>,
                                   Chain(c.h, c.r) = <<>> >>,
                       parts |-> << <<1>>, <<2>>, <<3>> >>,
                       hist  |-> <<>>]

\* a = table_join(a, b): b is merged into a and is the caller's no longer.
Join(i, j) ==
    /\ status = "running"
    /\ i # j
    /\ ghost.parts[i] # <<>>
    /\ ghost.parts[j] # <<>>
    /\ LET r == table_join(heap, in[i], in[j]) IN
       /\ heap' = r.h
       /\ in' = [in EXCEPT ![i] = r.r, ![j] = NULL]
       /\ call' = [op |-> "table_join", a |-> in[i], b |-> in[j]]
       /\ ret' = r.r
       /\ ghost' = [ghost EXCEPT !.parts[i] = ghost.parts[i] \o ghost.parts[j],
                                 !.parts[j] = <<>>,
                                 !.hist = Append(@, <<i, j>>)]
    /\ UNCHANGED status

NextJoin == \E i \in 1..3, j \in 1..3 : Join(i, j)

SpecJoin == InitJoin /\ [][NextJoin]_vars

\* The entries the tables merged under slot i held when they were made.
Merged(i) == Flatten([k \in 1..Len(ghost.parts[i]) |-> ghost.orig[ghost.parts[i][k]]])

\* C5: table_join is concatenation with the empty table as identity.  Every
\* table a caller still holds lists exactly the entries of the tables joined
\* into it, in the order they were joined, each once, with the chain ended
\* and tail at the last entry; so (a join b) join c and a join (b join c)
\* list the same entries; joining an absent or headless table onto a
\* returns a itself, and joining b onto an absent or headless table returns b.
C5_JoinIsConcatenation ==
    /\ \A i \in 1..3 :
          ghost.parts[i] # <<>> =>
              /\ Chain(heap, in[i]) = Merged(i)
              /\ WellFormed(heap, in[i])
    /\ call.op = "table_join" =>
          /\ (call.b = NULL \/ Chain(heap, call.b) = <<>>) => ret = call.a
          /\ (Chain(heap, ret) # <<>> /\ ret # call.a) => ret = call.b

\* Both groupings of three non-empty tables have been joined into slot 1.
C5_Witness ==
    /\ ghost.parts[1] = <<1, 2, 3>>
    /\ ghost.hist = << <<2, 3>>, <<1, 2>> >>
    /\ \A k \in 1..3 : ~ghost.empty[k]
    /\ Len(Chain(heap, in[1])) >= 3

====
